---- MODULE Spec2Model ----
(***************************************************************************)
(* A model of the SHACL converter: src/src/parser.js (FileParser),         *)
(* src/src/converter.js (ShaclConverter) and the command line program      *)
(* (cli.js, src/unnamed/part_000 lines 123-373).                           *)
(*                                                                         *)
(* Text is modelled as a sequence of tokens.  A token is a run of          *)
(* characters that the code never looks inside: a path is a sequence of    *)
(* the separators "." and "/" and of words, a JSON text a sequence of      *)
(* punctuation, strings and literals, a template a sequence of             *)
(* placeholders and plain text.                                            *)
(***************************************************************************)
EXTENDS Integers, Sequences, FiniteSets, TLC

VARIABLES
    \* ---- FileParser.detectFileType / getDataFormat applied to a path
    path,        \* the path given to detectFileType, a sequence of tokens
    tag,         \* "" before the call, afterwards the returned tag
    label,       \* "" before the call, afterwards getDataFormat(tag)
    urlResult,   \* NotLoaded before the call, afterwards what loadUrl got
                 \* and returned for the URL https://h/<path>
    \* ---- FileParser.isSchema applied to a content and a type tag
    vocab,       \* which kind of text is being written: "json" or "turtle"
    content,     \* the content given to isSchema, a sequence of tokens
    budget,      \* how many more tokens may be appended to content
    fileType,    \* the type tag given to isSchema ("" before the call)
    outcome,     \* NotCalled before the call, afterwards isSchema's result
    template,    \* the template the convert command then chooses
    format,      \* the format label the convert command then computes
    \* ---- one run of the command line program, or one use of the library
    cmd,         \* the subcommand; NONE when the library is used directly
    optKey,      \* --api-key (NONE: not given)
    envKey,      \* ANTHROPIC_API_KEY (NONE: not set)
    optOutput,   \* --output (NONE: not given)
    optType,     \* --type (NONE: not given)
    optFormat,   \* --format, a text (Absent: not given)
    source,      \* the <source> argument, a sequence of tokens
    srcContent,  \* what the file or URL named by source holds
    promptFile,  \* what the template file in prompts/ holds
    pc,          \* where the run stands
    apiKey,      \* the action's local apiKey
    converter,   \* the ShaclConverter object (its fields), or NoConverter
    templateName,\* convert's parameter templateName
    input,       \* convert's parameter input
    formatArg,   \* convert's parameter format (Absent: null)
    prompt,      \* convert's local prompt
    result,      \* what convert returned
    stdout,      \* what console.log printed
    stderr,      \* what console.error printed
    written,     \* the files written: <<name, data>> pairs
    reads,       \* the files read
    fetches,     \* the URLs fetched
    requests,    \* the prompts sent to the model endpoint
    exitCode,    \* the exit code of the process (NONE: still running)
    error,       \* the message of the error thrown or rejected with
    \* ---- several conversions called on one ShaclConverter
    calls        \* the calls of convert made so far, each with its
                 \* parameters, its position and its locals

detectVars == <<path, tag, label, urlResult>>
schemaVars == <<vocab, budget, outcome, template, format>>
textVars == <<content, fileType>>
argVars == <<cmd, optKey, envKey, optOutput, optType, optFormat, source,
             srcContent, promptFile>>
callVars == <<converter, templateName, input, formatArg, prompt, result>>
ioVars == <<stdout, stderr, written, reads, fetches, requests>>
runVars == <<pc, apiKey, exitCode, error>>
sessionVars == <<calls>>
programVars == <<argVars, callVars, ioVars, runVars, sessionVars>>
vars == <<detectVars, schemaVars, textVars, programVars>>

NONE == "<none>"      \* JavaScript undefined / null: an option not given
NotCalled == [threw |-> FALSE, value |-> NONE]   \* outcome before the call
Absent == <<NONE>>    \* a text that is undefined / null
NoConverter == [client |-> NONE, modelName |-> NONE]

(***************************************************************************)
(* Bounds of the model.                                                    *)
(***************************************************************************)
MaxPathLen == 5       \* tokens in a path
MaxAppend == 3        \* tokens appended to a seed content
MaxTemplateLen == 3   \* tokens in a template given to the library
MaxInputLen == 1      \* tokens in an input given to the library
MaxCalls == 2         \* calls made on one ShaclConverter

(***************************************************************************)
(* FileParser.detectFileType  (src/src/parser.js 15-32)                    *)
(***************************************************************************)
LowerWords == {"owl", "rdf", "ttl", "xsd", "xml", "json", "jsonld", "xlsx",
               "xls", "csv", "pdf", "txt", "a", "tar"}
UpperWords == {"OWL", "Pdf"}
Words == LowerWords \cup UpperWords
PathTokens == {".", "/"} \cup Words

\* String.prototype.toLowerCase on a word
toLowerCase(w) ==
    CASE w = "OWL" -> "owl"
      [] w = "Pdf" -> "pdf"
      [] OTHER -> w

\* the typeMap object literal of detectFileType
typeMap ==
    [e \in {".owl", ".rdf", ".ttl", ".xsd", ".xml", ".json", ".jsonld",
            ".xlsx", ".xls", ".csv", ".pdf", ".txt"} |->
        CASE e = ".owl" -> "owl"
          [] e = ".rdf" -> "rdf"
          [] e = ".ttl" -> "turtle"
          [] e = ".xsd" -> "xsd"
          [] e = ".xml" -> "xml"
          [] e = ".json" -> "json"
          [] e = ".jsonld" -> "jsonld"
          [] e = ".xlsx" -> "excel"
          [] e = ".xls" -> "excel"
          [] e = ".csv" -> "csv"
          [] e = ".pdf" -> "pdf"
          [] e = ".txt" -> "text"]

\* One step of the backward scan of path.extname over p[i]: st is the record
\* of the scan's locals (startDot, startPart, end, matchedSlash, preDotState;
\* 0-based positions, -1 for "not seen", as in Node's lib/path.js).
ExtScanStep(p, i, st) ==
    IF p[i + 1] = "/"
    THEN IF ~st.matchedSlash
         THEN [st EXCEPT !.startPart = i + 1, !.stop = TRUE]
         ELSE st
    ELSE LET s1 == IF st.end = -1
                   THEN [st EXCEPT !.matchedSlash = FALSE, !.end = i + 1]
                   ELSE st
         IN  IF p[i + 1] = "."
             THEN IF s1.startDot = -1
                  THEN [s1 EXCEPT !.startDot = i]
                  ELSE IF s1.preDotState # 1
                       THEN [s1 EXCEPT !.preDotState = 1]
                       ELSE s1
             ELSE IF s1.startDot # -1
                  THEN [s1 EXCEPT !.preDotState = -1]
                  ELSE s1

RECURSIVE ExtScan(_, _, _)
ExtScan(p, i, st) ==
    IF i < 0 \/ st.stop THEN st
    ELSE ExtScan(p, i - 1, ExtScanStep(p, i, st))

\* path.extname(p): the tokens of the extension, <<>> for no extension
extname(p) ==
    LET st == ExtScan(p, Len(p) - 1,
                      [startDot |-> -1, startPart |-> 0, end |-> -1,
                       matchedSlash |-> TRUE, preDotState |-> 0,
                       stop |-> FALSE])
    IN  IF \/ st.startDot = -1
           \/ st.end = -1
           \/ st.preDotState = 0
           \/ /\ st.preDotState = 1
              /\ st.startDot = st.end - 1
              /\ st.startDot = st.startPart + 1
        THEN <<>>
        ELSE SubSeq(p, st.startDot + 1, st.end)

\* the text of a sequence of tokens, with every word lower-cased
RECURSIVE LowerText(_)
LowerText(s) ==
    IF s = <<>> THEN ""
    ELSE toLowerCase(Head(s)) \o LowerText(Tail(s))

RECURSIVE Text(_)
Text(s) == IF s = <<>> THEN "" ELSE Head(s) \o Text(Tail(s))

\* detectFileType without the toLowerCase call
detectFileTypeCaseSensitive(p) ==
    LET ext == Text(extname(p))
    IN  IF ext \in DOMAIN typeMap THEN typeMap[ext] ELSE "unknown"

detectFileType(p) ==
    LET ext == LowerText(extname(p))
    IN  IF ext \in DOMAIN typeMap THEN typeMap[ext] ELSE "unknown"

(***************************************************************************)
(* FileParser.getDataFormat  (src/src/parser.js 137-150)                   *)
(***************************************************************************)
formatMap ==
    [t \in {"json", "jsonld", "xml", "turtle", "rdf", "excel", "csv", "pdf",
            "text"} |->
        CASE t = "json" -> "JSON"
          [] t = "jsonld" -> "JSON-LD"
          [] t = "xml" -> "XML"
          [] t = "turtle" -> "RDF Turtle"
          [] t = "rdf" -> "RDF/XML"
          [] t = "excel" -> "Excel"
          [] t = "csv" -> "CSV"
          [] t = "pdf" -> "PDF Text"
          [] t = "text" -> "Plain Text"]

\* Names every object literal inherits from Object.prototype: formatMap[t] is
\* a function or an object for them, which is truthy.
ObjectPrototypeKeys == {"constructor", "toString", "__proto__"}

getDataFormat(t) ==
    IF t \in DOMAIN formatMap THEN formatMap[t]
    ELSE IF t \in ObjectPrototypeKeys THEN "<Object.prototype." \o t \o ">"
    ELSE "Unknown"

(***************************************************************************)
(* JSON.parse, as far as FileParser.isSchema looks at its result.          *)
(* A JSON text is a sequence of the tokens below; a parsed value is a      *)
(* record with its kind and, for an object, its members.                   *)
(***************************************************************************)
K_schema == "\"$schema\""
K_properties == "\"properties\""
K_definitions == "\"definitions\""
K_a == "\"a\""
JsonStrings == {K_schema, K_properties, K_definitions, K_a}
JsonTokens == {"{", "}", ":", ",", "null", "0", "[]"} \cup JsonStrings

Undefined == [kind |-> "undefined"]
Bad == [ok |-> FALSE, v |-> Undefined, next |-> 0]

\* the value of a one-token JSON text (a literal, a string, an empty array)
ScalarValue(t) ==
    CASE t = "null" -> [kind |-> "null"]
      [] t = "0" -> [kind |-> "number", truthy |-> FALSE]
      [] t = "[]" -> [kind |-> "array", truthy |-> TRUE]
      [] OTHER -> [kind |-> "string", truthy |-> TRUE]

RECURSIVE ParseValue(_, _), ParseMembers(_, _, _)
\* parse one value of c starting at position i (1-based)
ParseValue(c, i) ==
    IF i > Len(c) THEN Bad
    ELSE IF c[i] \in {"null", "0", "[]"} \cup JsonStrings
    THEN [ok |-> TRUE, v |-> ScalarValue(c[i]), next |-> i + 1]
    ELSE IF c[i] = "{"
    THEN IF i + 1 <= Len(c) /\ c[i + 1] = "}"
         THEN [ok |-> TRUE,
               v |-> [kind |-> "object", members |-> <<>>],
               next |-> i + 2]
         ELSE ParseMembers(c, i + 1, <<>>)
    ELSE Bad

\* parse `string : value` members from position i up to the closing brace;
\* ms is the sequence of <<key, value>> pairs read so far
ParseMembers(c, i, ms) ==
    IF i + 1 > Len(c) \/ c[i] \notin JsonStrings \/ c[i + 1] # ":" THEN Bad
    ELSE LET r == ParseValue(c, i + 2)
         IN  IF ~r.ok \/ r.next > Len(c) THEN Bad
             ELSE IF c[r.next] = "}"
             THEN [ok |-> TRUE,
                   v |-> [kind |-> "object",
                          members |-> Append(ms, <<c[i], r.v>>)],
                   next |-> r.next + 1]
             ELSE IF c[r.next] = ","
             THEN ParseMembers(c, r.next + 1, Append(ms, <<c[i], r.v>>))
             ELSE Bad

\* JSON.parse(c): ok is FALSE where JSON.parse throws a SyntaxError
JSONparse(c) ==
    LET r == ParseValue(c, 1)
    IN  IF r.ok /\ r.next = Len(c) + 1
        THEN [ok |-> TRUE, v |-> r.v]
        ELSE [ok |-> FALSE, v |-> Undefined]

\* v[k] for a parsed value v that is not null: the last member named k of an
\* object, undefined for a missing member and for every other kind of value
GetProperty(v, k) ==
    IF v.kind # "object" THEN Undefined
    ELSE LET idx == {j \in 1..Len(v.members) : v.members[j][1] = k}
         IN  IF idx = {} THEN Undefined
             ELSE v.members[CHOOSE j \in idx : \A m \in idx : m <= j][2]

\* JavaScript truthiness of a parsed value
Truthy(v) ==
    CASE v.kind \in {"undefined", "null"} -> FALSE
      [] v.kind = "object" -> TRUE
      [] OTHER -> v.truthy

(***************************************************************************)
(* FileParser.isSchema  (src/src/parser.js 105-132)                        *)
(* The result is a record: threw says that the call raised an error,       *)
(* value is the returned value ("true", "false", "jsonschema", "shacl1").  *)
(***************************************************************************)
TurtleTokens == {"sh:", "NodeShape", "PropertyShape", "#", "x"}
NodeShapeText == <<"sh:", "NodeShape">>
PropertyShapeText == <<"sh:", "PropertyShape">>

\* String.prototype.includes: the needle occurs as a contiguous part of c
includes(c, needle) ==
    \E i \in 1..(Len(c) - Len(needle) + 1) :
        SubSeq(c, i, i + Len(needle) - 1) = needle

Returned(v) == [threw |-> FALSE, value |-> v]
Threw(e) == [threw |-> TRUE, value |-> e]

SchemaKeys == <<K_schema, K_properties, K_definitions>>

\* The body of the try block (lines 115-118) with the keys tested in the
\* condition of line 116: "jsonschema" when the block returns, "completed"
\* when it runs to its end, and the error's name when a statement throws.
TryBlock(c, keys) ==
    LET parsed == JSONparse(c)
    IN  IF ~parsed.ok THEN "SyntaxError"
        ELSE IF parsed.v.kind = "null" THEN "TypeError"
        ELSE IF \E j \in 1..Len(keys) : Truthy(GetProperty(parsed.v, keys[j]))
        THEN "jsonschema"
        ELSE "completed"

\* lines 124-131, reached when nothing returned earlier
ShaclCheck(c, t, needles) ==
    IF t \in {"turtle", "rdf"} /\ \E n \in needles : includes(c, n)
    THEN Returned("shacl1")
    ELSE Returned("false")

\* isSchema with the keys the JSON branch tests, the errors its catch clause
\* catches and the substrings the SHACL branch looks for
isSchemaWith(c, t, keys, caught, needles) ==
    IF t \in {"owl", "xsd", "jsonschema"} THEN Returned("true")
    ELSE IF t = "json"
    THEN LET r == TryBlock(c, keys)
         IN  IF r = "jsonschema" THEN Returned("jsonschema")
             ELSE IF r = "completed" \/ r \in caught
             THEN ShaclCheck(c, t, needles)
             ELSE Threw(r)
    ELSE ShaclCheck(c, t, needles)

AllErrors == {"SyntaxError", "TypeError"}

\* isSchema whose condition forgets parsed.properties
isSchemaNoProperties(c, t) ==
    isSchemaWith(c, t, <<K_schema, K_definitions>>, AllErrors,
                 {NodeShapeText, PropertyShapeText})

\* isSchema whose condition forgets parsed.definitions
isSchemaNoDefinitions(c, t) ==
    isSchemaWith(c, t, <<K_schema, K_properties>>, AllErrors,
                 {NodeShapeText, PropertyShapeText})

\* isSchema that looks for sh:NodeShape only
isSchemaNodeShapeOnly(c, t) ==
    isSchemaWith(c, t, SchemaKeys, AllErrors, {NodeShapeText})

\* isSchema without the try/catch around JSON.parse
isSchemaNoCatch(c, t) ==
    isSchemaWith(c, t, SchemaKeys, {}, {NodeShapeText, PropertyShapeText})

\* isSchema whose catch clause handles the SyntaxError of JSON.parse only
isSchemaCatchSyntaxError(c, t) ==
    isSchemaWith(c, t, SchemaKeys, {"SyntaxError"},
                 {NodeShapeText, PropertyShapeText})

isSchema(c, t) ==
    isSchemaWith(c, t, SchemaKeys, AllErrors,
                 {NodeShapeText, PropertyShapeText})

(***************************************************************************)
(* The convert command's choice of a conversion                            *)
(* (src/unnamed/part_000 207-222): the template of the ShaclConverter      *)
(* method it calls (src/src/converter.js 57-87).                           *)
(***************************************************************************)
\* the choice made by the type tag alone, whatever isSchema returned
convertTemplateByTagOnly(schemaType, t) ==
    IF t = "jsonschema" THEN "jsonschema-to-shacl"
    ELSE IF t = "owl" THEN "owl-to-shacl"
    ELSE IF t = "xsd" THEN "xsd-to-shacl"
    ELSE IF t = "shacl1" THEN "shacl1-to-shacl12"
    ELSE "data-to-shacl"

convertTemplate(schemaType, t) ==
    IF schemaType = "jsonschema" \/ t = "jsonschema" THEN "jsonschema-to-shacl"
    ELSE IF t = "owl" THEN "owl-to-shacl"
    ELSE IF t = "xsd" THEN "xsd-to-shacl"
    ELSE IF schemaType = "shacl1" \/ t = "shacl1" THEN "shacl1-to-shacl12"
    ELSE "data-to-shacl"

\* JavaScript truthiness of a string and of a text
TruthyString(x) == x \notin {NONE, ""}
TruthyText(x) == x \notin {Absent, <<>>}

(***************************************************************************)
(* FileParser.loadUrl's type detection  (src/src/parser.js 54-71)          *)
(***************************************************************************)
\* url.endsWith('.' + ext)
endsWith(u, ext) ==
    Len(u) >= 2 /\ u[Len(u) - 1] = "." /\ u[Len(u)] = ext

\* contentType ? contentType.split(';')[0] : null
mimeTypeOf(contentType) ==
    IF TruthyText(contentType) THEN Head(contentType) ELSE NONE

\* loadUrl taking the MIME type for the tag when no test matches
loadUrlTypeOrMime(url, contentType) ==
    LET mimeType == mimeTypeOf(contentType)
    IN  IF endsWith(url, "owl") \/ mimeType = "application/rdf+xml" THEN "owl"
        ELSE IF endsWith(url, "xsd") \/ endsWith(url, "xml")
        THEN (IF endsWith(url, "xsd") THEN "xsd" ELSE "xml")
        ELSE IF endsWith(url, "ttl") \/ mimeType = "text/turtle" THEN "turtle"
        ELSE IF endsWith(url, "json") \/ mimeType = "application/json"
        THEN "json"
        ELSE IF endsWith(url, "jsonld") \/ mimeType = "application/ld+json"
        THEN "jsonld"
        ELSE IF endsWith(url, "pdf") THEN "pdf"
        ELSE IF mimeType # NONE THEN mimeType
        ELSE "unknown"

loadUrlType(url, contentType) ==
    LET mimeType == mimeTypeOf(contentType)
    IN  IF endsWith(url, "owl") \/ mimeType = "application/rdf+xml" THEN "owl"
        ELSE IF endsWith(url, "xsd") \/ endsWith(url, "xml")
        THEN (IF endsWith(url, "xsd") THEN "xsd" ELSE "xml")
        ELSE IF endsWith(url, "ttl") \/ mimeType = "text/turtle" THEN "turtle"
        ELSE IF endsWith(url, "json") \/ mimeType = "application/json"
        THEN "json"
        ELSE IF endsWith(url, "jsonld") \/ mimeType = "application/ld+json"
        THEN "jsonld"
        ELSE IF endsWith(url, "pdf") THEN "pdf"
        ELSE "unknown"

\* the URL of the host h that ends in the path name
UrlOf(name) == <<"https://", "h", "/">> \o name

\* the Content-Type headers a response carries (Absent: none)
ContentTypes ==
    {Absent, <<"application/json", ";", "charset=utf-8">>, <<"text/turtle">>,
     <<"application/rdf+xml">>, <<"application/ld+json">>, <<"text/html">>}

(***************************************************************************)
(* Format detection applied to bounded inputs.                             *)
(* A behaviour either writes a path token by token and then calls          *)
(* detectFileType and getDataFormat on it, or writes a content (a seed     *)
(* followed by at most MaxAppend tokens) and then runs the convert         *)
(* command's classification of it under some type tag.                     *)
(***************************************************************************)
IDLE == "<idle>"

JsonSeeds ==
    {<<>>}
    \cup {<<"{", k, ":">> : k \in JsonStrings}
    \cup {<<"{", K_schema, ":", "null", ",", K_properties, ":">>,
          <<"{", K_properties, ":", "0", ",", K_definitions, ":">>,
          <<"{", K_properties, ":", K_a, ",", K_properties, ":">>}
TurtleSeeds == {<<>>, <<"#">>}

\* the type tags the classification is run under
SchemaTags == {"json", "turtle", "rdf", "owl", "jsonschema", "text", "unknown"}

NotLoaded == [contentType |-> Absent, fileType |-> ""]
UrlIdle == [contentType |-> Absent, fileType |-> IDLE]

DetectIdle == path = <<>> /\ tag = IDLE /\ label = IDLE /\ urlResult = UrlIdle
SchemaIdle ==
    /\ vocab = IDLE /\ content = <<>> /\ budget = 0
    /\ fileType = IDLE /\ outcome = NotCalled /\ template = NONE /\ format = NONE

ProgramIdle ==
    /\ cmd = IDLE /\ optKey = NONE /\ envKey = NONE /\ optOutput = NONE
    /\ optType = NONE /\ optFormat = Absent /\ source = <<>>
    /\ srcContent = <<>> /\ promptFile = <<>>
    /\ pc = IDLE /\ apiKey = NONE /\ exitCode = NONE /\ error = NONE
    /\ calls = <<>>
    /\ converter = NoConverter /\ templateName = NONE /\ input = <<>>
    /\ formatArg = Absent /\ prompt = <<>> /\ result = NONE
    /\ stdout = <<>> /\ stderr = <<>> /\ written = <<>> /\ reads = <<>>
    /\ fetches = <<>> /\ requests = <<>>

InitDetect ==
    /\ path = <<>> /\ tag = "" /\ label = "" /\ urlResult = NotLoaded
    /\ SchemaIdle
    /\ ProgramIdle

InitSchema ==
    /\ DetectIdle
    /\ vocab \in {"json", "turtle"}
    /\ content \in (IF vocab = "json" THEN JsonSeeds ELSE TurtleSeeds)
    /\ budget = MaxAppend
    /\ fileType = "" /\ outcome = NotCalled /\ template = NONE /\ format = NONE
    /\ ProgramIdle

InitDetection == InitDetect \/ InitSchema

\* write one more token of the path; two words in a row would be one word
PathAppend(t) ==
    /\ tag = "" /\ Len(path) < MaxPathLen
    /\ ~(t \in Words /\ path # <<>> /\ path[Len(path)] \in Words)
    /\ path' = Append(path, t)
    /\ UNCHANGED <<tag, label, urlResult, schemaVars, textVars, programVars>>

\* FileParser.detectFileType(path)
DetectFileType ==
    /\ tag = ""
    /\ tag' = detectFileType(path)
    /\ UNCHANGED <<path, label, urlResult, schemaVars, textVars, programVars>>

\* FileParser.getDataFormat(tag)
GetDataFormat ==
    /\ tag \notin {"", IDLE} /\ label = ""
    /\ label' = getDataFormat(tag)
    /\ UNCHANGED <<path, tag, urlResult, schemaVars, textVars, programVars>>

\* FileParser.loadUrl of the URL https://h/<path>, answered with the
\* Content-Type header ct: the fileType it returns (parser.js 54-74)
LoadUrl(ct) ==
    /\ label \notin {"", IDLE} /\ urlResult = NotLoaded
    /\ urlResult' = [contentType |-> ct,
                     fileType |-> loadUrlType(UrlOf(path), ct)]
    /\ UNCHANGED <<path, tag, label, schemaVars, textVars, programVars>>

\* write one more token of the content
ContentAppend(t) ==
    /\ vocab # IDLE /\ fileType = "" /\ budget > 0
    /\ t \in (IF vocab = "json" THEN JsonTokens ELSE TurtleTokens)
    /\ content' = Append(content, t)
    /\ budget' = budget - 1
    /\ UNCHANGED <<vocab, fileType, outcome, template, format, detectVars,
                   programVars>>

\* The convert command classifying the content under the type tag t, with no
\* -f option (src/unnamed/part_000 208-221): isSchema, then the choice of
\* the conversion and, for a data source, of the format label.
Classify(t) ==
    /\ vocab # IDLE /\ fileType = ""
    /\ fileType' = t
    /\ outcome' = isSchema(content, t)
    /\ template' = IF outcome'.threw THEN NONE
                   ELSE convertTemplate(outcome'.value, t)
    /\ format' = IF template' = "data-to-shacl" THEN getDataFormat(t) ELSE NONE
    /\ UNCHANGED <<vocab, content, budget, detectVars, programVars>>

NextDetection ==
    \/ \E t \in PathTokens : PathAppend(t)
    \/ DetectFileType
    \/ GetDataFormat
    \/ \E ct \in ContentTypes : LoadUrl(ct)
    \/ \E t \in JsonTokens \cup TurtleTokens : ContentAppend(t)
    \/ \E t \in SchemaTags : Classify(t)

SpecDetection == InitDetection /\ [][NextDetection]_vars

(***************************************************************************)
(* Claims about format detection, checked under SpecDetection.             *)
(***************************************************************************)
Called == tag \notin {"", IDLE}
Classified == outcome # NotCalled

\* the path without its trailing slashes
RECURSIVE Trimmed(_)
Trimmed(p) ==
    IF p # <<>> /\ p[Len(p)] = "/" THEN Trimmed(SubSeq(p, 1, Len(p) - 1))
    ELSE p

\* the last portion of the path: what follows the last slash
LastPortion(p) ==
    LET q == Trimmed(p)
        slashes == {i \in 1..Len(q) : q[i] = "/"}
        from == IF slashes = {} THEN 1
                ELSE 1 + CHOOSE i \in slashes : \A j \in slashes : j <= i
    IN  SubSeq(q, from, Len(q))

\* The final extension of the path: from the last dot of the last portion to
\* its end; a portion has none when it has no dot, when its only dot is its
\* first character (a dot file) and when it is "..".
FinalExtension(p) ==
    LET b == LastPortion(p)
        dots == {i \in 2..Len(b) : b[i] = "."}
    IN  IF dots = {} \/ b = <<".", ".">> THEN <<>>
        ELSE SubSeq(b, CHOOSE i \in dots : \A j \in dots : j <= i, Len(b))

\* the table of the claim: extension name, tag
ClaimedTable ==
    {<<"owl", "owl">>, <<"rdf", "rdf">>, <<"ttl", "turtle">>, <<"xsd", "xsd">>,
     <<"xml", "xml">>, <<"json", "json">>, <<"jsonld", "jsonld">>,
     <<"xlsx", "excel">>, <<"xls", "excel">>, <<"csv", "csv">>,
     <<"pdf", "pdf">>, <<"txt", "text">>}

ClaimedTag(p) ==
    LET e == FinalExtension(p)
        rows == IF Len(e) = 2
                THEN {r \in ClaimedTable : r[1] = toLowerCase(e[2])}
                ELSE {}
    IN  IF rows = {} THEN "unknown" ELSE (CHOOSE r \in rows : TRUE)[2]

\* C1: detectFileType returns the tag the table maps the path's final
\* extension to, compared without regard to letter case, and "unknown" for
\* every other path, a path without extension included.
DetectReturnsMappedTag == Called => tag = ClaimedTag(path)

\* a.tar.OWL is detected as owl
WitnessMappedTag ==
    /\ Called /\ tag = "owl"
    /\ path = <<"a", ".", "tar", ".", "OWL">>

\* c is a JSON text of an object; its members as JSON.parse keeps them: for
\* a name given twice the last member counts
IsJsonObject(c) == JSONparse(c).ok /\ JSONparse(c).v.kind = "object"
HasKey(c, k) ==
    /\ IsJsonObject(c)
    /\ \E j \in 1..Len(JSONparse(c).v.members) :
            JSONparse(c).v.members[j][1] = k
HasTruthyKey(c, k) ==
    /\ IsJsonObject(c)
    /\ LET ms == JSONparse(c).v.members
       IN  \E j \in 1..Len(ms) :
              /\ ms[j][1] = k
              /\ \A i \in (j + 1)..Len(ms) : ms[i][1] # k
              /\ ms[j][2].kind \in {"string", "array", "object"}

\* C2 as stated: a JSON object with a properties key is classified as
\* jsonschema under every type tag, and the JSON-Schema template is chosen.
PropertiesKeyMeansJsonSchemaForEveryTag ==
    (Classified /\ HasKey(content, K_properties)) =>
        /\ outcome = Returned("jsonschema")
        /\ template = "jsonschema-to-shacl"

\* C2: under the type tag json, a JSON object whose properties member is
\* truthy is classified as jsonschema and the JSON-Schema template is
\* chosen; under every other type tag the result is never jsonschema.
PropertiesKeyMeansJsonSchemaForJsonTag ==
    Classified =>
        /\ (fileType = "json" /\ HasTruthyKey(content, K_properties)) =>
              /\ outcome = Returned("jsonschema")
              /\ template = "jsonschema-to-shacl"
        /\ fileType # "json" => outcome.value # "jsonschema"

WitnessPropertiesKey ==
    /\ fileType = "json"
    /\ content = <<"{", K_properties, ":", "[]", "}">>
    /\ outcome = Returned("jsonschema")
    /\ template = "jsonschema-to-shacl"

\* C3 as stated: under the tag json the result is jsonschema exactly when
\* the content is a JSON object with one of the three keys, whatever the
\* value under the key, and false otherwise.
JsonSchemaIffKeyPresent ==
    (Classified /\ fileType = "json") =>
        outcome = Returned(IF \E k \in {K_schema, K_properties, K_definitions} :
                                  HasKey(content, k)
                           THEN "jsonschema" ELSE "false")

\* C3: under the tag json the result is jsonschema exactly when the content
\* is a JSON object with a truthy value under one of the three keys, and
\* false otherwise.
JsonSchemaIffKeyTruthy ==
    (Classified /\ fileType = "json") =>
        outcome = Returned(IF \E k \in {K_schema, K_properties, K_definitions} :
                                  HasTruthyKey(content, k)
                           THEN "jsonschema" ELSE "false")

WitnessKeyTruthy ==
    /\ fileType = "json"
    /\ content = <<"{", K_properties, ":", "0", ",", K_definitions, ":",
                   "{", "}", "}">>
    /\ outcome = Returned("jsonschema")

\* the text sh:NodeShape or sh:PropertyShape occurs somewhere in c
MentionsShape(c) ==
    \E i \in 1..(Len(c) - 1) :
        c[i] = "sh:" /\ c[i + 1] \in {"NodeShape", "PropertyShape"}

\* C4: under the tags turtle and rdf the result is shacl1 when the content
\* contains sh:NodeShape or sh:PropertyShape anywhere, and false otherwise.
ShapeTextMeansShacl1 ==
    (Classified /\ fileType \in {"turtle", "rdf"}) =>
        outcome = Returned(IF MentionsShape(content) THEN "shacl1" ELSE "false")

\* sh:PropertyShape inside a comment
WitnessShapeText ==
    /\ fileType = "rdf"
    /\ content = <<"#", "x", "sh:", "PropertyShape">>
    /\ outcome = Returned("shacl1")

\* C5: under the tag json a content that is not valid JSON raises no error,
\* is classified false and is converted as a data source.
MalformedJsonIsData ==
    (Classified /\ fileType = "json" /\ ~JSONparse(content).ok) =>
        /\ outcome = Returned("false")
        /\ template = "data-to-shacl"

WitnessMalformedJson ==
    /\ fileType = "json"
    /\ content = <<"{", K_properties, ":", "{", "}">>
    /\ outcome = Returned("false")
    /\ template = "data-to-shacl"

DetectTags ==
    {"owl", "rdf", "turtle", "xsd", "xml", "json", "jsonld", "excel", "csv",
     "pdf", "text", "unknown"}

\* C6: detectFileType, isSchema and getDataFormat raise no error: each
\* returns a value for every path, content and type tag.
DetectionNeverRaises ==
    /\ Called => tag \in DetectTags
    /\ (Called /\ label # "") =>
           label \in {formatMap[t] : t \in DOMAIN formatMap} \cup {"Unknown"}
    /\ Classified =>
           /\ ~outcome.threw
           /\ outcome.value \in {"true", "false", "jsonschema", "shacl1"}
           /\ format # NONE => format = getDataFormat(fileType)

\* the JSON text null, which is valid JSON and no object
WitnessNeverRaises ==
    /\ fileType = "json"
    /\ content = <<"null">>
    /\ outcome = Returned("false")

\* loadUrl has been called on the URL of the path
Loaded == urlResult.fileType \notin {"", IDLE}

\* C22: the tag detectFileType returns, which is the fileType of loadFile,
\* and the fileType loadUrl returns are members of the fixed set of twelve
\* tags, for every path, URL and Content-Type header.
TagIsOfTheFixedSet ==
    /\ Called => tag \in DetectTags
    /\ Loaded => urlResult.fileType \in DetectTags

\* an unrecognised header and an unrecognised ending give unknown
WitnessUnknownUrl ==
    /\ path = <<"a", ".", "tar">> /\ tag = "unknown"
    /\ urlResult = [contentType |-> <<"text/html">>, fileType |-> "unknown"]

\* the path ends in an extension
EndsInExtension(p) ==
    /\ Len(p) >= 3 /\ p[Len(p)] \in Words /\ p[Len(p) - 1] = "."
    /\ p[Len(p) - 2] \in Words
    /\ FinalExtension(p) # <<>>

\* C26 as stated: for a path and a URL that end in the same extension, in
\* any letter case, and a response without Content-Type header, loadUrl
\* returns the tag detectFileType returns.
UrlAndFileDetectionAgree ==
    (Loaded /\ urlResult.contentType = Absent /\ EndsInExtension(path)) =>
        urlResult.fileType = tag

(***************************************************************************)
(* ShaclConverter  (src/src/converter.js)                                  *)
(***************************************************************************)
\* new ShaclConverter(key): the fields of the object; NoConverter stands
\* for the constructor having thrown 'Anthropic API key is required'
ShaclConverterIgnoringKey(key) ==
    [client |-> key, modelName |-> "claude-opus-4-20250514"]

ShaclConverter(key) ==
    IF ~TruthyString(key) THEN NoConverter
    ELSE [client |-> key, modelName |-> "claude-opus-4-20250514"]

\* convert returning the text of the last content segment
ReturnedTextOfLast(segs) == segs[Len(segs)]

\* return message.content[0].text  (converter.js 51), for a response that
\* has a first segment
ReturnedText(segs) == Head(segs)

\* The text a replacement string stands for in String.prototype.replace with
\* a string pattern: $$ inserts a dollar sign and $& the matched text.
RECURSIVE Expansion(_, _)
Expansion(repl, matched) ==
    IF repl = <<>> THEN <<>>
    ELSE (CASE Head(repl) = "$$" -> <<"$">>
            [] Head(repl) = "$&" -> <<matched>>
            [] OTHER -> <<Head(repl)>>) \o Expansion(Tail(repl), matched)

\* s.replace(pat, repl) for a string pattern: the first occurrence only
replace(s, pat, repl) ==
    LET hits == {i \in 1..Len(s) : s[i] = pat}
    IN  IF hits = {} THEN s
        ELSE LET i == CHOOSE h \in hits : \A g \in hits : h <= g
             IN  SubSeq(s, 1, i - 1) \o Expansion(repl, pat)
                   \o SubSeq(s, i + 1, Len(s))

\* lines 34-38 of convert: the prompt made of the template
compose(tpl, in, fmt) ==
    LET p1 == replace(tpl, "{input}", in)
    IN  IF TruthyText(fmt) THEN replace(p1, "{format}", fmt) ELSE p1

(***************************************************************************)
(* The command line program  (src/unnamed/part_000 123-373)                *)
(* The convert command's action (148-236) and runConversion (290-371) run  *)
(* the same steps; an action of the model is the code between two awaits.  *)
(* The brace of line 193, which has no opening brace, is read as absent.   *)
(***************************************************************************)
Commands == {"convert", "owl", "xsd", "jsonschema", "upgrade", "data"}

\* the type each dedicated subcommand passes to runConversion
TypeOfCommand(c) ==
    CASE c = "owl" -> "owl"
      [] c = "xsd" -> "xsd"
      [] c = "jsonschema" -> "jsonschema"
      [] c = "upgrade" -> "shacl1"
      [] c = "data" -> "data"

\* the switch of runConversion (338-357): the template of the method called
switchTemplate(type) ==
    CASE type = "owl" -> "owl-to-shacl"
      [] type = "xsd" -> "xsd-to-shacl"
      [] type = "jsonschema" -> "jsonschema-to-shacl"
      [] type = "shacl1" -> "shacl1-to-shacl12"
      [] type = "data" -> "data-to-shacl"

\* source.startsWith('http://') || source.startsWith('https://')
IsUrl(src) == src # <<>> /\ Head(src) \in {"http://", "https://"}

\* process.env.ANTHROPIC_API_KEY || options.apiKey
ChosenKeyEnvFirst(opt, env) == IF TruthyString(env) THEN env ELSE opt

\* options.apiKey || process.env.ANTHROPIC_API_KEY
ChosenKey(opt, env) == IF TruthyString(opt) THEN opt ELSE env

\* the output goes to a file whenever the option is given, even as ""
OutputToFileWhenGiven(out) == out # NONE

\* if (options.output): convert action 225, runConversion 360
OutputToFile(out) == TruthyString(out)

\* Buffer.toString('utf-8') and fs.readFile(path, 'utf-8'): a token of bytes
\* that are no UTF-8 text is decoded to replacement characters
BinaryTokens == {"bytes"}
toStringUtf8(b) ==
    [i \in 1..Len(b) |-> IF b[i] \in BinaryTokens THEN "<U+FFFD>" ELSE b[i]]

\* the texts the model runs on
JsonSchemaDoc == <<"{", K_properties, ":", "{", "}", "}">>
BrokenJsonDoc == <<"{", K_a>>
ShapeDoc == <<"x", "sh:", "NodeShape">>
BinaryDoc == <<"bytes">>
ExcelJson == <<"{", "\"Sheet1\"", ":", "[]", "}">>   \* JSON.stringify(result)
PdfText == <<"pdf text">>                            \* data.text

TextDocs == {JsonSchemaDoc, BrokenJsonDoc, ShapeDoc}
TextNames == {<<"a", ".", "owl">>, <<"a", ".", "json">>, <<"a", ".", "ttl">>,
              <<"a", ".", "rdf">>, <<"a">>}
BinaryNames == {<<"a", ".", "xlsx">>, <<"a", ".", "pdf">>}

\* the <source> arguments with what the file or URL holds
Sources ==
    {<<n, d>> : n \in TextNames, d \in TextDocs}
    \cup {<<UrlOf(n), d>> : n \in TextNames \ {<<"a", ".", "ttl">>},
                           d \in TextDocs}
    \cup {<<n, BinaryDoc>> : n \in BinaryNames}
    \cup {<<UrlOf(n), BinaryDoc>> : n \in BinaryNames}

OptKeys == {NONE, "", "sk-opt"}
EnvKeys == {NONE, "sk-env"}
OptOutputs == {NONE, "", "out.ttl"}
OptTypes == {NONE, "", "owl", "xsd", "jsonschema", "shacl1", "data", "bogus",
             "constructor"}
OptFormats == {Absent, <<>>, <<"CSV">>}
CliPromptFiles == {<<"T", "{input}", "{format}">>}
Responses == {<<>>, <<"R1">>, <<"R1", "R2">>}
\* the messages of the errors the provider's client rejects with
ProviderErrors == {"401 invalid x-api-key", "429 rate_limit_error"}

PromptPath(name) == <<"prompts", "/", name, ".", "txt">>

MsgNoFile == "ENOENT: no such file or directory"
MsgNoSegment == "Cannot read properties of undefined (reading 'text')"
MsgNoKey ==
    "Error: Anthropic API key required. Set ANTHROPIC_API_KEY environment variable or use --api-key option."

DetectionIdle ==
    /\ DetectIdle
    /\ vocab = IDLE /\ budget = 0 /\ outcome = NotCalled
    /\ template = NONE /\ format = NONE

InitCli ==
    /\ DetectionIdle
    /\ cmd \in Commands
    /\ optKey \in OptKeys /\ envKey \in EnvKeys
    /\ optOutput \in OptOutputs
    /\ optType \in (IF cmd = "convert" THEN OptTypes ELSE {NONE})
    /\ optFormat \in (IF cmd \in {"convert", "data"} THEN OptFormats
                      ELSE {Absent})
    /\ \E s \in Sources : source = s[1] /\ srcContent = s[2]
    /\ promptFile \in CliPromptFiles
    /\ pc = "start" /\ apiKey = NONE /\ exitCode = NONE /\ error = NONE
    /\ calls = <<>>
    /\ content = Absent /\ fileType = NONE
    /\ converter = NoConverter /\ templateName = NONE /\ input = <<>>
    /\ formatArg = Absent /\ prompt = <<>> /\ result = NONE
    /\ stdout = <<>> /\ stderr = <<>> /\ written = <<>> /\ reads = <<>>
    /\ fetches = <<>> /\ requests = <<>>

\* the convert command never overriding the detected type
overrideTypeNever(t) == t

\* if (options.type) fileType = options.type  (convert action 196-199);
\* runConversion has no such option
overrideType(t) ==
    IF cmd = "convert" /\ TruthyString(optType) THEN optType ELSE t

\* The format argument of the conversion method called by the command c for
\* the template name, the --format option f and the type t: none but for
\* dataToShacl, where the convert command passes
\* options.format || FileParser.getDataFormat(fileType)  (220) and
\* runConversion options.format || 'JSON'  (352).
chosenFormat(c, name, f, t) ==
    IF name # "data-to-shacl" THEN Absent
    ELSE IF TruthyText(f) THEN f
    ELSE IF c = "convert" THEN <<getDataFormat(t)>>
    ELSE <<"JSON">>

\* a catch clause that reports the error and lets the process end normally
CatchWithoutExit(msg, err) ==
    /\ error' = msg
    /\ stderr' = Append(err, "Error: " \o msg)
    /\ pc' = "done"
    /\ exitCode' = 0

\* the catch clause: console.error('Error:', error.message); process.exit(1)
Catch(msg, err) ==
    /\ error' = msg
    /\ stderr' = Append(err, "Error: " \o msg)
    /\ pc' = "exited"
    /\ exitCode' = 1

\* The code from the end of loading to the first await of convert (convert
\* action 196-222, runConversion 334-357, converter.js 32-33 and 24-26) for
\* the loaded content c and the detected type t.
Dispatch(c, t) ==
    LET t1 == overrideType(t)
        err == IF cmd = "convert"
               THEN stderr \o <<"Detected type: " \o t1,
                                "Converting with Claude Opus 4.5...">>
               ELSE Append(stderr, "Converting with Claude Opus 4.5...")
        conv == ShaclConverter(apiKey)
        schemaType == isSchema(c, t1)
        name == IF cmd = "convert"
                THEN convertTemplate(schemaType.value, t1)
                ELSE switchTemplate(TypeOfCommand(cmd))
        fmt == chosenFormat(cmd, name, optFormat, t1)
    IN  /\ content' = c
        /\ fileType' = t1
        /\ converter' = conv
        /\ IF conv = NoConverter
           THEN /\ Catch("Anthropic API key is required", err)
                /\ UNCHANGED <<templateName, input, formatArg, reads>>
           ELSE IF cmd = "convert" /\ schemaType.threw
           THEN /\ Catch(schemaType.value, err)
                /\ UNCHANGED <<templateName, input, formatArg, reads>>
           ELSE /\ templateName' = name
                /\ input' = c
                /\ formatArg' = fmt
                /\ reads' = Append(reads, PromptPath(name))
                /\ stderr' = err
                /\ pc' = "awaitPrompt"
                /\ UNCHANGED <<exitCode, error>>

\* convert action 149-160 / runConversion 291-302: the key check, then the
\* call of loadUrl or loadFile up to its await
KeyCheck ==
    /\ pc = "start"
    /\ LET key == ChosenKey(optKey, envKey)
       IN  IF ~TruthyString(key)
           THEN /\ stderr' = Append(stderr, MsgNoKey)
                /\ pc' = "exited"
                /\ exitCode' = 1
                /\ UNCHANGED <<apiKey, reads, fetches>>
           ELSE /\ apiKey' = key
                /\ stderr' = Append(stderr, "Loading source...")
                /\ UNCHANGED exitCode
                /\ IF IsUrl(source)
                   THEN /\ fetches' = Append(fetches, source)
                        /\ pc' = "awaitFetch"
                        /\ UNCHANGED reads
                   ELSE /\ reads' = Append(reads, source)
                        /\ pc' = "awaitRead"
                        /\ UNCHANGED fetches
    /\ UNCHANGED <<detectVars, schemaVars, textVars, argVars, callVars,
                   stdout, written, requests, error, sessionVars>>

\* what every step after the key check leaves alone
Frame == UNCHANGED <<detectVars, schemaVars, argVars, apiKey, sessionVars>>

\* loadUrl resumes with the response (parser.js 54-74), then the action goes
\* on (convert action 162-181, runConversion 304-320)
FetchOk(contentType) ==
    /\ pc = "awaitFetch"
    /\ LET t == loadUrlType(source, contentType)
       IN  IF t = "excel"
           THEN \* xlsx.read(content, {type: 'buffer'}) and JSON.stringify
                Dispatch(ExcelJson, t)
           ELSE IF t = "pdf"
           THEN /\ content' = toStringUtf8(srcContent)
                /\ fileType' = t
                /\ pc' = "awaitPdf"
                /\ UNCHANGED <<converter, templateName, input, formatArg,
                               reads, stderr, exitCode, error>>
           ELSE Dispatch(toStringUtf8(srcContent), t)
    /\ Frame
    /\ UNCHANGED <<prompt, result, stdout, written, fetches, requests>>

\* axios.get rejects
FetchFail ==
    /\ pc = "awaitFetch"
    /\ Catch("Request failed", stderr)
    /\ Frame
    /\ UNCHANGED <<textVars, callVars, stdout, written, reads, fetches,
                   requests>>

\* loadFile resumes with the file's text (parser.js 38-40), then the action
\* goes on (convert action 184-192, runConversion 323-331)
ReadOk ==
    /\ pc = "awaitRead"
    /\ LET t == detectFileType(source)
       IN  IF t \in {"excel", "pdf"}
           THEN \* parseExcel / parsePdf: fs.readFile(filePath)
                /\ content' = toStringUtf8(srcContent)
                /\ fileType' = t
                /\ reads' = Append(reads, source)
                /\ pc' = IF t = "excel" THEN "awaitExcelRead"
                         ELSE "awaitPdfRead"
                /\ UNCHANGED <<converter, templateName, input, formatArg,
                               stderr, exitCode, error>>
           ELSE Dispatch(toStringUtf8(srcContent), t)
    /\ Frame
    /\ UNCHANGED <<prompt, result, stdout, written, fetches, requests>>

\* fs.readFile rejects: of loadFile, parseExcel or parsePdf
ReadFail ==
    /\ pc \in {"awaitRead", "awaitExcelRead", "awaitPdfRead"}
    /\ Catch(MsgNoFile, stderr)
    /\ Frame
    /\ UNCHANGED <<textVars, callVars, stdout, written, reads, fetches,
                   requests>>

\* parseExcel resumes with the buffer (parser.js 82-90): the sheets as JSON
ExcelParsed ==
    /\ pc = "awaitExcelRead"
    /\ Dispatch(ExcelJson, fileType)
    /\ Frame
    /\ UNCHANGED <<prompt, result, stdout, written, fetches, requests>>

\* parsePdf resumes with the buffer and calls pdfParse (parser.js 98)
PdfRead ==
    /\ pc = "awaitPdfRead"
    /\ pc' = "awaitPdf"
    /\ Frame
    /\ UNCHANGED <<textVars, callVars, ioVars, exitCode, error>>

\* pdfParse resolves: content = data.text
PdfParsed ==
    /\ pc = "awaitPdf"
    /\ Dispatch(PdfText, fileType)
    /\ Frame
    /\ UNCHANGED <<prompt, result, stdout, written, fetches, requests>>

\* a handler that reports a failed parse and goes on to convert the text it
\* had loaded, as data
ParseFailFallsBack ==
    /\ pc \in {"awaitExcelRead", "awaitPdf"}
    /\ error' = "Invalid file"
    /\ stderr' = Append(stderr, "Error: Invalid file")
    /\ converter' = ShaclConverter(apiKey)
    /\ templateName' = "data-to-shacl"
    /\ input' = content
    /\ formatArg' = <<getDataFormat(fileType)>>
    /\ reads' = Append(reads, PromptPath("data-to-shacl"))
    /\ pc' = "awaitPrompt"
    /\ Frame
    /\ UNCHANGED <<textVars, prompt, result, stdout, written, fetches,
                   requests, exitCode>>

\* xlsx.read throws or pdfParse rejects
ParseFail ==
    /\ pc \in {"awaitExcelRead", "awaitPdf"}
    /\ Catch("Invalid file", stderr)
    /\ Frame
    /\ UNCHANGED <<textVars, callVars, stdout, written, reads, fetches,
                   requests>>

\* the command not awaiting the conversion: the pending promise is printed
\* as soon as the request is sent
PromptOkNotAwaited ==
    /\ pc = "awaitPrompt"
    /\ prompt' = compose(promptFile, input, formatArg)
    /\ requests' = Append(requests, prompt')
    /\ stdout' = IF cmd = NONE THEN stdout
                 ELSE Append(stdout, "Promise { <pending> }")
    /\ pc' = "awaitResponse"
    /\ Frame
    /\ UNCHANGED <<textVars, converter, templateName, input, formatArg,
                   result, stderr, written, reads, fetches, exitCode, error>>

\* loadPrompt resumes with the template (converter.js 26, 33-49): the prompt
\* is composed and sent
PromptOk ==
    /\ pc = "awaitPrompt"
    /\ prompt' = compose(promptFile, input, formatArg)
    /\ requests' = Append(requests, prompt')
    /\ pc' = "awaitResponse"
    /\ Frame
    /\ UNCHANGED <<textVars, converter, templateName, input, formatArg,
                   result, stdout, stderr, written, reads, fetches, exitCode,
                   error>>

\* a promise awaited by convert rejects (the template cannot be read, the
\* request fails): the command catches the error, the library's caller
\* gets it
\* convert sending the request once more when it has failed
ConvertFailRetry(e) ==
    /\ pc \in {"awaitPrompt", "awaitResponse"}
    /\ e \in (IF pc = "awaitPrompt" THEN {MsgNoFile} ELSE ProviderErrors)
    /\ IF pc = "awaitResponse" /\ Len(requests) < 2
       THEN /\ requests' = Append(requests, prompt)
            /\ UNCHANGED <<pc, error, stderr, exitCode>>
       ELSE /\ UNCHANGED requests
            /\ IF cmd = NONE
               THEN /\ pc' = "rejected" /\ error' = e
                    /\ UNCHANGED <<stderr, exitCode>>
               ELSE Catch(e, stderr)
    /\ Frame
    /\ UNCHANGED <<textVars, callVars, stdout, written, reads, fetches>>

\* a handler whose catch clause puts the error's message where the result
\* would have gone
ConvertFailWritesError(e) ==
    /\ pc \in {"awaitPrompt", "awaitResponse"}
    /\ e \in (IF pc = "awaitPrompt" THEN {MsgNoFile} ELSE ProviderErrors)
    /\ IF cmd = NONE
       THEN /\ pc' = "rejected" /\ error' = e
            /\ UNCHANGED <<stderr, exitCode, stdout, written>>
       ELSE /\ Catch(e, stderr)
            /\ IF OutputToFile(optOutput)
               THEN /\ written' = Append(written, <<optOutput, e>>)
                    /\ UNCHANGED stdout
               ELSE /\ stdout' = Append(stdout, e)
                    /\ UNCHANGED written
    /\ Frame
    /\ UNCHANGED <<textVars, callVars, reads, fetches, requests>>

\* a convert that starts over when the provider rejects the request: it
\* loads the template again and sends the prompt again
ConvertFailStartsOver(e) ==
    /\ pc \in {"awaitPrompt", "awaitResponse"}
    /\ e \in (IF pc = "awaitPrompt" THEN {MsgNoFile} ELSE ProviderErrors)
    /\ IF pc = "awaitResponse"
       THEN /\ pc' = "awaitPrompt"
            /\ requests' = <<>>
            /\ UNCHANGED <<error, stderr, exitCode>>
       ELSE /\ UNCHANGED requests
            /\ IF cmd = NONE
               THEN /\ pc' = "rejected" /\ error' = e
                    /\ UNCHANGED <<stderr, exitCode>>
               ELSE Catch(e, stderr)
    /\ Frame
    /\ UNCHANGED <<textVars, callVars, stdout, written, reads, fetches>>

ConvertFail(e) ==
    /\ pc \in {"awaitPrompt", "awaitResponse"}
    /\ e \in (IF pc = "awaitPrompt" THEN {MsgNoFile} ELSE ProviderErrors)
    /\ IF cmd = NONE
       THEN pc' = "rejected" /\ error' = e /\ UNCHANGED <<stderr, exitCode>>
       ELSE Catch(e, stderr)
    /\ Frame
    /\ UNCHANGED <<textVars, callVars, stdout, written, reads, fetches,
                   requests>>

\* The request resolves with the content segments segs: convert returns
\* the first one's text (converter.js 51), and reading the text of a first
\* segment that does not exist throws a TypeError; the command then writes
\* or prints the result (convert action 224-232, runConversion 359-366).
ResponseOk(segs) ==
    /\ pc = "awaitResponse"
    /\ IF segs = <<>>
       THEN /\ IF cmd = NONE
               THEN /\ pc' = "rejected" /\ error' = MsgNoSegment
                    /\ UNCHANGED <<stderr, exitCode>>
               ELSE Catch(MsgNoSegment, stderr)
            /\ UNCHANGED <<result, stdout>>
       ELSE /\ result' = ReturnedText(segs)
            /\ UNCHANGED error
            /\ IF cmd = NONE
               THEN /\ pc' = "returned"
                    /\ UNCHANGED <<stdout, stderr, exitCode>>
               ELSE IF OutputToFile(optOutput)
               THEN \* fs.writeFile(options.output, result)
                    /\ pc' = "awaitWrite"
                    /\ UNCHANGED <<stdout, stderr, exitCode>>
               ELSE /\ stdout' = Append(stdout, result')
                    /\ stderr' = Append(stderr, "Conversion complete!")
                    /\ pc' = "done"
                    /\ exitCode' = 0
    /\ Frame
    /\ UNCHANGED <<textVars, converter, templateName, input, formatArg,
                   prompt, written, reads, fetches, requests>>

\* fs.writeFile resolves
WriteOk ==
    /\ pc = "awaitWrite"
    /\ written' = Append(written, <<optOutput, result>>)
    /\ stderr' = stderr \o <<"Output written to " \o optOutput,
                              "Conversion complete!">>
    /\ pc' = "done"
    /\ exitCode' = 0
    /\ Frame
    /\ UNCHANGED <<textVars, callVars, stdout, reads, fetches, requests,
                   error>>

\* fs.writeFile rejects
WriteFail ==
    /\ pc = "awaitWrite"
    /\ Catch("EACCES: permission denied", stderr)
    /\ Frame
    /\ UNCHANGED <<textVars, callVars, stdout, written, reads, fetches,
                   requests>>

(***************************************************************************)
(* The library used directly: a ShaclConverter is constructed and one of   *)
(* its conversion methods is called on a template, an input and a format.  *)
(***************************************************************************)
SeqsUpTo(S, n) == UNION {[1..k -> S] : k \in 0..n}

TemplateTokens == {"T", "{input}", "{format}"}
InputTokens == {"x", "{input}", "{format}", "$&", "$$"}
LibKeys == {NONE, "", "sk-lib"}
LibFormats == {Absent, <<>>, <<"JSON">>, <<"{input}">>}
\* owlToShacl(input) and dataToShacl(input, format)
LibCalls == {<<"owl-to-shacl", Absent>>}
            \cup {<<"data-to-shacl", f>> : f \in LibFormats}

InitLibrary ==
    /\ DetectionIdle
    /\ cmd = NONE
    /\ optKey = NONE /\ envKey = NONE /\ optOutput = NONE /\ optType = NONE
    /\ optFormat = Absent /\ source = <<>> /\ srcContent = <<>>
    /\ promptFile \in SeqsUpTo(TemplateTokens, MaxTemplateLen)
    /\ pc = "lib" /\ apiKey = NONE /\ exitCode = NONE /\ error = NONE
    /\ calls = <<>>
    /\ content = Absent /\ fileType = NONE
    /\ converter = NoConverter /\ templateName = NONE /\ input = <<>>
    /\ formatArg = Absent /\ prompt = <<>> /\ result = NONE
    /\ stdout = <<>> /\ stderr = <<>> /\ written = <<>> /\ reads = <<>>
    /\ fetches = <<>> /\ requests = <<>>

\* new ShaclConverter(key)  (converter.js 13-19)
New(key) ==
    /\ pc = "lib" /\ converter = NoConverter
    /\ apiKey' = key
    /\ converter' = ShaclConverter(key)
    /\ pc' = IF converter' = NoConverter THEN "threw" ELSE "lib"
    /\ error' = IF converter' = NoConverter
                THEN "Anthropic API key is required" ELSE error
    /\ UNCHANGED <<detectVars, schemaVars, textVars, argVars, templateName,
                   input, formatArg, prompt, result, ioVars, exitCode,
                   sessionVars>>

\* converter.convert(in, name, fmt) up to the await of loadPrompt
\* (converter.js 32-33, 24-26)
Call(in, name, fmt) ==
    /\ pc = "lib" /\ converter # NoConverter
    /\ input' = in
    /\ templateName' = name
    /\ formatArg' = fmt
    /\ reads' = Append(reads, PromptPath(name))
    /\ pc' = "awaitPrompt"
    /\ UNCHANGED <<detectVars, schemaVars, textVars, argVars, apiKey,
                   converter, prompt, result, stdout, stderr, written,
                   fetches, requests, exitCode, error, sessionVars>>

InitProgram == InitCli \/ InitLibrary

NextProgram ==
    \/ KeyCheck
    \/ \E ct \in ContentTypes : FetchOk(ct)
    \/ FetchFail
    \/ ReadOk
    \/ ReadFail
    \/ ExcelParsed
    \/ PdfRead
    \/ PdfParsed
    \/ ParseFail
    \/ PromptOk
    \/ \E e \in ProviderErrors \cup {MsgNoFile} : ConvertFail(e)
    \/ \E segs \in Responses : ResponseOk(segs)
    \/ WriteOk
    \/ WriteFail
    \/ \E k \in LibKeys : New(k)
    \/ \E in \in SeqsUpTo(InputTokens, MaxInputLen), c \in LibCalls :
          Call(in, c[1], c[2])

SpecProgram == InitProgram /\ [][NextProgram]_vars

(***************************************************************************)
(* One run of a subcommand with every external call answered.  A handler   *)
(* is a straight line of awaits inside one try block (convert action       *)
(* 148-236, runConversion 290-371, converter.js 32-52): at each await the   *)
(* pending call resolves or rejects, which is a step of NextCli, so weak    *)
(* fairness of NextCli says that no call stays pending forever.            *)
(***************************************************************************)
NextCli ==
    \/ KeyCheck
    \/ \E ct \in ContentTypes : FetchOk(ct)
    \/ FetchFail
    \/ ReadOk
    \/ ReadFail
    \/ ExcelParsed
    \/ PdfRead
    \/ PdfParsed
    \/ ParseFail
    \/ PromptOk
    \/ \E e \in ProviderErrors \cup {MsgNoFile} : ConvertFail(e)
    \/ \E segs \in Responses : ResponseOk(segs)
    \/ WriteOk
    \/ WriteFail

\* the runs with no key in the environment, no --format option and no option
\* given with the empty value
InitCliRun ==
    /\ InitCli
    /\ envKey = NONE /\ optFormat = Absent
    /\ optKey # "" /\ optOutput # "" /\ optType # ""

SpecCliFair == InitCliRun /\ [][NextCli]_vars /\ WF_vars(NextCli)

(***************************************************************************)
(* Several conversions on one ShaclConverter.  convert (converter.js 32-52) *)
(* is an async method: a caller may call it again while an earlier call is *)
(* suspended at one of its two awaits.  Each call has its own parameters   *)
(* and locals (input, templateName, format, promptTemplate, prompt,        *)
(* message); the object has the two fields the constructor set.            *)
(***************************************************************************)
\* calls of the five conversion methods (converter.js 57-87): the input, and
\* the template name and the format the method hands to convert
SessionCalls ==
    {<<<<"x">>, "owl-to-shacl", Absent>>,
     <<<<"y">>, "owl-to-shacl", Absent>>,
     <<<<"x">>, "xsd-to-shacl", Absent>>,
     <<<<"y">>, "jsonschema-to-shacl", Absent>>,
     <<<<"x">>, "shacl1-to-shacl12", Absent>>,
     <<<<"x">>, "data-to-shacl", <<"JSON">>>>,
     <<<<"y">>, "data-to-shacl", <<"JSON">>>>}
SessionTemplates == {<<"{input}", "as", "{format}">>}

InitSession ==
    /\ DetectionIdle
    /\ cmd = NONE
    /\ optKey = NONE /\ envKey = NONE /\ optOutput = NONE /\ optType = NONE
    /\ optFormat = Absent /\ source = <<>> /\ srcContent = <<>>
    /\ promptFile \in SessionTemplates
    /\ pc = "session" /\ apiKey = "sk-lib" /\ exitCode = NONE /\ error = NONE
    /\ calls = <<>>
    /\ content = Absent /\ fileType = NONE
    /\ converter = ShaclConverter(apiKey) /\ templateName = NONE
    /\ input = <<>> /\ formatArg = Absent /\ prompt = <<>> /\ result = NONE
    /\ stdout = <<>> /\ stderr = <<>> /\ written = <<>> /\ reads = <<>>
    /\ fetches = <<>> /\ requests = <<>>

SessionFrame ==
    UNCHANGED <<detectVars, schemaVars, argVars, textVars, callVars, runVars,
                stdout, stderr, written, fetches>>

\* converter.convert(in, name, fmt) up to the await of loadPrompt
\* (converter.js 32-33, 24-26)
SessionCall(in, name, fmt) ==
    /\ pc = "session" /\ Len(calls) < MaxCalls
    /\ calls' = Append(calls, [input |-> in, templateName |-> name,
                               format |-> fmt, pc |-> "awaitPrompt",
                               prompt |-> <<>>, response |-> Absent,
                               result |-> NONE, error |-> NONE])
    /\ reads' = Append(reads, PromptPath(name))
    /\ UNCHANGED requests
    /\ SessionFrame

\* a converter that keeps the input and the format of the call made last in
\* fields of the object and composes every prompt from them
SessionPromptOkShared(i) ==
    /\ pc = "session" /\ i \in 1..Len(calls)
    /\ calls[i].pc = "awaitPrompt"
    /\ LET p == compose(promptFile, calls[Len(calls)].input,
                        calls[Len(calls)].format)
       IN /\ calls' = [calls EXCEPT ![i].prompt = p,
                                    ![i].pc = "awaitResponse"]
          /\ requests' = Append(requests, p)
    /\ UNCHANGED reads
    /\ SessionFrame

\* loadPrompt resumes in call i with the template (converter.js 33-49): the
\* prompt is composed from the call's own parameters and sent
SessionPromptOk(i) ==
    /\ pc = "session" /\ i \in 1..Len(calls)
    /\ calls[i].pc = "awaitPrompt"
    /\ LET p == compose(promptFile, calls[i].input, calls[i].format)
       IN /\ calls' = [calls EXCEPT ![i].prompt = p,
                                    ![i].pc = "awaitResponse"]
          /\ requests' = Append(requests, p)
    /\ UNCHANGED reads
    /\ SessionFrame

\* a promise awaited by call i rejects (converter.js 33, 40): the call
\* rejects with the error
SessionFail(i, e) ==
    /\ pc = "session" /\ i \in 1..Len(calls)
    /\ calls[i].pc \in {"awaitPrompt", "awaitResponse"}
    /\ e \in (IF calls[i].pc = "awaitPrompt" THEN {MsgNoFile}
              ELSE ProviderErrors)
    /\ calls' = [calls EXCEPT ![i].pc = "rejected", ![i].error = e]
    /\ UNCHANGED <<reads, requests>>
    /\ SessionFrame

\* the request of call i resolves with the content segments segs
\* (converter.js 40-51)
SessionResponse(i, segs) ==
    /\ pc = "session" /\ i \in 1..Len(calls)
    /\ calls[i].pc = "awaitResponse"
    /\ calls' = IF segs = <<>>
                THEN [calls EXCEPT ![i].pc = "rejected",
                                   ![i].response = segs,
                                   ![i].error = MsgNoSegment]
                ELSE [calls EXCEPT ![i].pc = "returned",
                                   ![i].response = segs,
                                   ![i].result = ReturnedText(segs)]
    /\ UNCHANGED <<reads, requests>>
    /\ SessionFrame

NextSession ==
    \/ \E c \in SessionCalls : SessionCall(c[1], c[2], c[3])
    \/ \E i \in 1..MaxCalls : SessionPromptOk(i)
    \/ \E i \in 1..MaxCalls, e \in ProviderErrors \cup {MsgNoFile} :
          SessionFail(i, e)
    \/ \E i \in 1..MaxCalls, segs \in Responses : SessionResponse(i, segs)

SpecSession == InitSession /\ [][NextSession]_vars

(***************************************************************************)
(* Claims about several conversions on one converter, checked under        *)
(* SpecSession.                                                            *)
(***************************************************************************)
\* call i has composed and sent its prompt
SentPrompt(i) == calls[i].pc \in {"awaitResponse", "returned"} \/
                 (calls[i].pc = "rejected" /\ calls[i].error # MsgNoFile)

\* C21: a conversion keeps no state between calls: the converter object is
\* what the constructor made it whatever calls have run or are suspended,
\* and the prompt a call sends is composed from that call's own input and
\* format and the template file, also when the calls are interleaved.
ConversionIsStateless ==
    pc = "session" =>
        /\ converter = ShaclConverter(apiKey)
        /\ \A i \in 1..Len(calls) :
              /\ SentPrompt(i) =>
                    calls[i].prompt = compose(promptFile, calls[i].input,
                                              calls[i].format)
              /\ \A j \in 1..Len(calls) :
                    (/\ SentPrompt(i) /\ SentPrompt(j)
                     /\ calls[i].input = calls[j].input
                     /\ calls[i].format = calls[j].format)
                        => calls[i].prompt = calls[j].prompt
        /\ Len(requests) = Cardinality({i \in 1..Len(calls) : SentPrompt(i)})
        /\ \A k \in 1..Len(requests) :
              \E i \in 1..Len(calls) : SentPrompt(i) /\
                                       requests[k] = calls[i].prompt

\* two calls with different inputs are in flight together and the second
\* one's prompt is sent first
WitnessInterleavedCalls ==
    /\ pc = "session" /\ Len(calls) = 2
    /\ calls[1].input = <<"x">> /\ calls[2].input = <<"y">>
    /\ calls[1].pc = "returned" /\ calls[2].pc = "returned"
    /\ Len(requests) = 2
    /\ requests[1] = calls[2].prompt /\ requests[2] = calls[1].prompt
    /\ calls[1].prompt # calls[2].prompt

\* C23: the text a conversion returns is the text of the first content
\* segment of the provider's response, unchanged; a call that rejects
\* returns nothing.
ReturnsFirstSegment ==
    pc = "session" =>
        \A i \in 1..Len(calls) :
            /\ calls[i].pc = "returned" =>
                  /\ calls[i].response \in Responses \ {<<>>}
                  /\ calls[i].result = calls[i].response[1]
            /\ calls[i].pc # "returned" => calls[i].result = NONE

\* a response of two segments has been received and the call has returned
WitnessTwoSegments ==
    /\ pc = "session" /\ Len(calls) >= 1
    /\ calls[1].pc = "returned"
    /\ calls[1].response = <<"R1", "R2">>
    /\ calls[1].result = "R1"

(***************************************************************************)
(* Claims about prompt composition and about the runs of the program,      *)
(* checked under SpecProgram.                                              *)
(***************************************************************************)
\* convert has composed its prompt and sent it
Composed == pc \in {"awaitResponse", "returned", "awaitWrite", "done"} \/
            (pc \in {"rejected", "exited"} /\ requests # <<>>)
Placeholders == {"{input}", "{format}"}
Mentions(s, toks) == \E i \in 1..Len(s) : s[i] \in toks

\* C7 as stated: for a template with both placeholders and every input and
\* non-empty format label, the composed prompt contains the input and the
\* label verbatim, and no placeholder of the template remains in it.
ComposedPromptHasInputAndFormat ==
    (/\ cmd = NONE /\ Composed
     /\ Mentions(promptFile, {"{input}"}) /\ Mentions(promptFile, {"{format}"})
     /\ TruthyText(formatArg)) =>
        /\ includes(prompt, input)
        /\ includes(prompt, formatArg)
        /\ (~Mentions(input, Placeholders) /\ ~Mentions(formatArg, Placeholders))
              => ~Mentions(prompt, Placeholders)

\* one pass over the template: its first {input} becomes the input and, for
\* a format label, its first {format} the label, both as they are
RECURSIVE SinglePass(_, _, _, _, _)
SinglePass(tpl, in, fmt, inputDone, formatDone) ==
    IF tpl = <<>> THEN <<>>
    ELSE IF Head(tpl) = "{input}" /\ ~inputDone
    THEN in \o SinglePass(Tail(tpl), in, fmt, TRUE, formatDone)
    ELSE IF Head(tpl) = "{format}" /\ ~formatDone /\ TruthyText(fmt)
    THEN fmt \o SinglePass(Tail(tpl), in, fmt, inputDone, TRUE)
    ELSE <<Head(tpl)>> \o SinglePass(Tail(tpl), in, fmt, inputDone, formatDone)

\* C8 as stated: composition is one substitution pass over the template;
\* the inserted input is not scanned again and reaches the model unchanged.
CompositionIsSinglePass ==
    (cmd = NONE /\ Composed) =>
        /\ prompt = SinglePass(promptFile, input, formatArg, FALSE, FALSE)
        /\ requests = <<prompt>>

Keyless == ~TruthyString(optKey) /\ ~TruthyString(envKey)

\* C9: a run of a subcommand without a key from --api-key or from
\* ANTHROPIC_API_KEY does nothing but exit with code 1: no file is read,
\* no URL fetched and no request sent; and a ShaclConverter exists only
\* with a key, so the library sends no request without one either.
NoKeyNoNetwork ==
    /\ (cmd \in Commands /\ Keyless /\ pc # "start") =>
          /\ pc = "exited" /\ exitCode = 1
          /\ reads = <<>> /\ fetches = <<>> /\ requests = <<>>
          /\ stdout = <<>> /\ written = <<>>
    /\ converter # NoConverter => TruthyString(converter.client)
    /\ (reads # <<>> \/ requests # <<>>) =>
          /\ converter # NoConverter \/ (cmd \in Commands /\ ~Keyless)
          /\ requests # <<>> => TruthyString(converter.client)

WitnessNoKey ==
    /\ cmd = "upgrade" /\ optKey = "" /\ envKey = NONE
    /\ pc = "exited" /\ exitCode = 1 /\ stderr = <<MsgNoKey>>

Succeeded == cmd \in Commands /\ pc = "done" /\ exitCode = 0

\* C10 as stated: in a successful run the result goes to the file and not
\* to standard output when -o is given, and to standard output and to no
\* file when -o is omitted.
OutputGoesWhereOptionSays ==
    Succeeded =>
        IF optOutput # NONE
        THEN written = <<<<optOutput, result>>>> /\ stdout = <<>>
        ELSE stdout = <<result>> /\ written = <<>>

\* C10: in a successful run the result goes to the file and not to standard
\* output when -o is given with a non-empty name, and to standard output
\* and to no file when -o is omitted or empty.
OutputGoesToNamedFileOrStdout ==
    Succeeded =>
        IF optOutput \notin {NONE, ""}
        THEN written = <<<<optOutput, result>>>> /\ stdout = <<>>
        ELSE stdout = <<result>> /\ written = <<>>

WitnessOutputFile ==
    /\ Succeeded /\ cmd = "data" /\ optOutput = "out.ttl"
    /\ written = <<<<"out.ttl", "R1">>>> /\ stdout = <<>>

Last(q) == q[Len(q)]
Ended == pc \in {"done", "exited"}
Delivered ==
    \/ stdout = <<result>> /\ written = <<>>
    \/ stdout = <<>> /\ written = <<<<optOutput, result>>>>

\* C11: a run of a subcommand ends with exit code 1 and an error message as
\* the last line of the error stream, nothing printed and nothing written,
\* or with exit code 0 and the result printed or written; a step that failed
\* (an error was thrown) never leads to exit code 0.
RunEndsInErrorOrResult ==
    cmd \in Commands =>
        IF ~Ended THEN exitCode = NONE /\ error = NONE
        ELSE /\ exitCode \in {0, 1}
             /\ error # NONE => exitCode = 1
             /\ exitCode = 1 =>
                   /\ pc = "exited" /\ stderr # <<>>
                   /\ \/ Last(stderr) = MsgNoKey /\ error = NONE
                      \/ error # NONE /\ Last(stderr) = "Error: " \o error
                   /\ stdout = <<>> /\ written = <<>>
             /\ exitCode = 0 =>
                   /\ pc = "done" /\ error = NONE
                   /\ result # NONE /\ requests # <<>>
                   /\ Delivered
                   /\ Last(stderr) = "Conversion complete!"
                   /\ \A i \in 1..Len(stderr) : stderr[i] # MsgNoKey

\* the output file cannot be written: the last step fails
WitnessWriteFails ==
    /\ cmd = "owl" /\ optOutput = "out.ttl" /\ result = "R1"
    /\ pc = "exited" /\ exitCode = 1
    /\ error = "EACCES: permission denied"
    /\ Last(stderr) = "Error: EACCES: permission denied"
    /\ written = <<>> /\ stdout = <<>>

\* C12 as stated: the converter is built with the --api-key option whenever
\* the option is given, and with ANTHROPIC_API_KEY only when it is absent.
KeyIsOptionWhenGiven ==
    (cmd \in Commands /\ converter # NoConverter) =>
        converter.client = IF optKey # NONE THEN optKey ELSE envKey

\* C12: the converter is built with the --api-key option whenever the option
\* is given with a non-empty value, whatever ANTHROPIC_API_KEY holds, and
\* with ANTHROPIC_API_KEY when the option is absent or empty.
KeyIsOptionWhenNonEmpty ==
    cmd \in Commands =>
        /\ apiKey # NONE =>
              apiKey = IF optKey \notin {NONE, ""} THEN optKey ELSE envKey
        /\ converter # NoConverter => converter.client = apiKey

WitnessOptionKeyWins ==
    /\ cmd = "xsd" /\ optKey = "sk-opt" /\ envKey = "sk-env"
    /\ converter # NoConverter /\ converter.client = "sk-opt"
    /\ requests # <<>>

\* the request was sent and convert did not return
RequestFailed ==
    requests # <<>> /\ result = NONE /\ pc \in {"rejected", "exited"}

\* C13: at most one request is sent per invocation; when it fails no second
\* one follows, convert rejects with the error it got from the provider's
\* client, and the command prints that error's message and exits with 1.
OneRequestNoRetry ==
    /\ Len(requests) <= 1
    /\ Len(requests) = 1 => requests[1] = prompt
    /\ RequestFailed =>
          /\ error \in ProviderErrors \cup {MsgNoSegment}
          /\ cmd = NONE => pc = "rejected"
          /\ cmd \in Commands =>
                /\ exitCode = 1
                /\ Last(stderr) = "Error: " \o error
                /\ stdout = <<>> /\ written = <<>>

WitnessRequestFails ==
    /\ cmd = "convert" /\ Len(requests) = 1
    /\ error = "429 rate_limit_error"
    /\ pc = "exited" /\ exitCode = 1
    /\ Last(stderr) = "Error: 429 rate_limit_error"

Range(q) == {q[i] : i \in 1..Len(q)}

\* the source has been loaded and, for a local spreadsheet or PDF file,
\* parsed; its type has been determined
SourceLoaded ==
    /\ source \in Range(IF IsUrl(source) THEN fetches ELSE reads)
    /\ content # Absent /\ fileType # NONE
    /\ (~IsUrl(source) /\ detectFileType(source) = "excel") =>
          content = ExcelJson
    /\ (~IsUrl(source) /\ detectFileType(source) = "pdf") =>
          content = PdfText

\* what a step that sends the request, prints or writes starts and ends with
OrderedStep ==
    cmd \in Commands =>
        /\ requests' # requests =>
              /\ requests = <<>>
              /\ SourceLoaded /\ input = content
              /\ PromptPath(templateName) \in Range(reads)
              /\ result = NONE /\ stdout = <<>> /\ written = <<>>
        /\ (stdout' # stdout \/ written' # written) =>
              /\ requests # <<>> /\ requests' = requests
              /\ result' # NONE
              /\ stdout' \in {stdout, <<result'>>}
              /\ written' \in {written, <<<<optOutput, result'>>>>}

\* C14: the steps of a run happen in the order load source, determine type,
\* send the one request, write or print the result: the step that sends the
\* request starts with the source loaded (and parsed) and nothing sent,
\* printed or written yet, and a step that prints or writes starts with the
\* request sent and ends with the response's text as the result.
StepsInOrder == [][OrderedStep]_vars

\* a spreadsheet was read, parsed and converted, and the result printed
WitnessStepsInOrder ==
    /\ cmd = "data" /\ source = <<"a", ".", "xlsx">>
    /\ reads = <<source, source, PromptPath("data-to-shacl")>>
    /\ input = ExcelJson /\ Len(requests) = 1
    /\ stdout = <<result>> /\ result = "R1" /\ exitCode = 0

FiveTemplates ==
    {"owl-to-shacl", "xsd-to-shacl", "jsonschema-to-shacl",
     "shacl1-to-shacl12", "data-to-shacl"}

\* the template the claim names for the classification c and the tag t
ClaimedTemplate(c, t) ==
    CASE c = "jsonschema" \/ t = "jsonschema" -> "jsonschema-to-shacl"
      [] ~(c = "jsonschema" \/ t = "jsonschema") /\ t = "owl" -> "owl-to-shacl"
      [] ~(c = "jsonschema" \/ t = "jsonschema") /\ t = "xsd" -> "xsd-to-shacl"
      [] /\ ~(c = "jsonschema" \/ t = "jsonschema") /\ t \notin {"owl", "xsd"}
         /\ (c = "shacl1" \/ t = "shacl1") -> "shacl1-to-shacl12"
      [] OTHER -> "data-to-shacl"

\* the tags detection can give the source: by its extension for a file, by
\* its ending and the response's content type for a URL
DetectedTags ==
    IF IsUrl(source) THEN {loadUrlType(source, ct) : ct \in ContentTypes}
    ELSE {detectFileType(source)}

\* the convert command has chosen its conversion
TemplateChosen == cmd = "convert" /\ templateName # NONE

\* C15 as stated: with the tag being the forced type whenever -t is given
\* and the detected tag otherwise, the convert command uses the one template
\* the chain of the claim names for isSchema(content, tag) and the tag.
TemplateFollowsChainWhenTypeGiven ==
    TemplateChosen =>
        \E d \in DetectedTags :
            LET t == IF optType # NONE THEN optType ELSE d
            IN  templateName = ClaimedTemplate(isSchema(content, t).value, t)

\* C15: with the tag being the forced type when -t is given with a non-empty
\* value and the detected tag otherwise, the convert command uses the one
\* template the chain of the claim names for isSchema(content, tag) and the
\* tag; one template file is read per run, and its name is one of the five.
TemplateFollowsChain ==
    /\ TemplateChosen =>
          /\ \E d \in DetectedTags :
                LET t == IF optType \notin {NONE, ""} THEN optType ELSE d
                IN  /\ fileType = t
                    /\ templateName =
                          ClaimedTemplate(isSchema(content, t).value, t)
          /\ reads[Len(reads)] = PromptPath(templateName)
    /\ cmd \in Commands =>
          /\ templateName \in FiveTemplates \cup {NONE}
          /\ \A i \in 1..Len(reads) :
                reads[i] = source \/ (i = Len(reads) /\ templateName # NONE)

\* a .json file holding a JSON Schema, no type forced
WitnessSniffedTemplate ==
    /\ cmd = "convert" /\ optType = NONE
    /\ source = <<"a", ".", "json">> /\ content = JsonSchemaDoc
    /\ fileType = "json" /\ templateName = "jsonschema-to-shacl"
    /\ reads = <<source, PromptPath("jsonschema-to-shacl")>>

\* the types the --type option is documented to take
SupportedTypes == {"owl", "xsd", "jsonschema", "shacl1", "data"}

\* C16 as stated: a run of the convert command that forces a type the tool
\* does not support sends no request and does not end with exit code 0.
UnsupportedForcedTypeIsAnError ==
    (cmd = "convert" /\ TruthyString(optType) /\ optType \notin SupportedTypes)
        => (requests = <<>> /\ pc # "done")

\* the template of a type the --type option is documented to take
TemplateOfType(t) ==
    CASE t = "owl" -> "owl-to-shacl"
      [] t = "xsd" -> "xsd-to-shacl"
      [] t = "jsonschema" -> "jsonschema-to-shacl"
      [] t = "shacl1" -> "shacl1-to-shacl12"
      [] t = "data" -> "data-to-shacl"

\* C17: when the convert command is given -t with one of the five supported
\* types, the template it uses is that type's, whatever the source's name
\* and content; only that template's file is read.
ForcedTypeDecidesTemplate ==
    (TemplateChosen /\ optType \in SupportedTypes) =>
        /\ templateName = TemplateOfType(optType)
        /\ Last(reads) = PromptPath(TemplateOfType(optType))
        /\ requests # <<>> => input = content

\* a .json file holding a JSON Schema is converted as data when -t data
\* is given
WitnessForcedData ==
    /\ cmd = "convert" /\ optType = "data"
    /\ source = <<"a", ".", "json">> /\ content = JsonSchemaDoc
    /\ templateName = "data-to-shacl" /\ requests # <<>>

\* C18 as stated: with no forced type, the convert command uses the OWL
\* template for a local file with extension .rdf whose content contains
\* neither sh:NodeShape nor sh:PropertyShape.
RdfFileIsConvertedAsOwl ==
    (/\ TemplateChosen /\ optType = NONE /\ ~IsUrl(source)
     /\ FinalExtension(source) = <<".", "rdf">>
     /\ ~MentionsShape(content)) =>
        templateName = "owl-to-shacl"

\* the source's name ends in one of the extensions exts
HasExtension(src, exts) ==
    Len(FinalExtension(src)) = 2 /\ FinalExtension(src)[2] \in exts

\* C19 as stated: for a source named .xlsx, .xls or .pdf, a local path or a
\* URL, what is substituted for {input} is the per-sheet JSON text or the
\* extracted text, never the raw content.
BinarySourceIsParsedFirst ==
    (cmd \in Commands /\ requests # <<>>) =>
        /\ HasExtension(source, {"xlsx", "xls"}) =>
              input = ExcelJson /\ ~includes(prompt, BinaryDoc)
        /\ HasExtension(source, {"pdf"}) =>
              input = PdfText /\ ~includes(prompt, BinaryDoc)

\* C20 as stated: every prompt sent to the model endpoint is non-empty,
\* whatever the input and the format are, for every template file (here:
\* every template file that is not itself empty).
PromptIsNeverEmpty ==
    promptFile # <<>> => \A i \in 1..Len(requests) : requests[i] # <<>>

\* the label the format table gives a tag, 'Unknown' for every tag the
\* table does not list
LabelOfTag(t) ==
    CASE t = "json" -> "JSON"
      [] t = "jsonld" -> "JSON-LD"
      [] t = "xml" -> "XML"
      [] t = "turtle" -> "RDF Turtle"
      [] t = "rdf" -> "RDF/XML"
      [] t = "excel" -> "Excel"
      [] t = "csv" -> "CSV"
      [] t = "pdf" -> "PDF Text"
      [] t = "text" -> "Plain Text"
      [] OTHER -> "Unknown"

\* C24: the format label handed over for {format}: on the data path of the
\* convert command the -f option when given, otherwise the table's label of
\* the tag with 'Unknown' for any other tag; in the data subcommand the -f
\* option when given, otherwise 'JSON'; on every other path none.  An
\* option counts as given when its value is not empty.
FormatLabelAsDocumented ==
    (cmd \in Commands /\ templateName # NONE) =>
        formatArg =
            IF templateName # "data-to-shacl" THEN Absent
            ELSE IF TruthyText(optFormat) THEN optFormat
            ELSE IF cmd = "convert" THEN <<LabelOfTag(fileType)>>
            ELSE <<"JSON">>

\* the dedicated subcommand of a type
CommandOfType(t) == IF t = "shacl1" THEN "upgrade" ELSE t

\* C25: convert -t t sends what the dedicated subcommand of t sends for the
\* same source and the same other options: the same template, the same
\* input text and the same format label.
ConvertWithTypeIsTheSubcommand ==
    (cmd = "convert" /\ optType \in {"owl", "xsd", "jsonschema", "shacl1",
                                     "data"} /\ templateName # NONE) =>
        /\ templateName = switchTemplate(optType)
        /\ input = content
        /\ formatArg = chosenFormat(CommandOfType(optType),
                                    switchTemplate(optType), optFormat,
                                    fileType)

\* C27: for a source fetched from a URL and tagged excel or pdf, the value
\* handed to the spreadsheet or PDF parser (the variable content at the call,
\* convert action 169 and 179, runConversion 309 and 318) is the byte buffer
\* that was fetched, not a UTF-8 decoding of it.
UrlParserGetsRawBytes ==
    (cmd \in Commands /\ IsUrl(source) /\ pc = "awaitPdf") =>
        content = srcContent

\* loading the source has failed: the fetch, a read of the source file, or
\* the parse of a spreadsheet or PDF (a read of the template file fails with
\* the same message, after a template has been chosen)
LoadFailed ==
    \/ error \in {"Request failed", "Invalid file"}
    \/ error = MsgNoFile /\ templateName = NONE

\* C28: when loading the source fails, no request is sent to the model in
\* that run, no output file is written, nothing is printed to standard
\* output, and the run exits with code 1.
LoadFailureEndsTheRun ==
    (cmd \in Commands /\ LoadFailed) =>
        /\ requests = <<>> /\ written = <<>> /\ stdout = <<>>
        /\ pc = "exited" /\ exitCode = 1
        /\ templateName = NONE /\ prompt = <<>>

\* a PDF file is read twice and its parse fails
WitnessPdfParseFails ==
    /\ cmd = "convert" /\ source = <<"a", ".", "pdf">>
    /\ reads = <<source, source>>
    /\ error = "Invalid file" /\ pc = "exited" /\ exitCode = 1
    /\ Last(stderr) = "Error: Invalid file"

\* C29: when the request to the model fails, the output destination is left
\* untouched: no write to the file named by -o is made, neither before nor
\* after the failure, so the file is not created and an existing one keeps
\* its content, and nothing is printed to standard output.
FailedRequestLeavesOutputAlone ==
    (cmd \in Commands /\ error \in ProviderErrors) =>
        /\ Len(requests) = 1
        /\ written = <<>> /\ stdout = <<>>
        /\ result = NONE /\ pc = "exited"

\* the request of a run with -o out.ttl has failed
WitnessFailedRequestWithOutputFile ==
    /\ cmd = "data" /\ optOutput = "out.ttl"
    /\ Len(requests) = 1 /\ error = "401 invalid x-api-key"
    /\ written = <<>> /\ stdout = <<>> /\ pc = "exited"

\* how far a run has come: the awaits of a handler in the order of the code
Rank(p) ==
    CASE p = "start" -> 0
      [] p \in {"awaitFetch", "awaitRead"} -> 1
      [] p \in {"awaitExcelRead", "awaitPdfRead"} -> 2
      [] p = "awaitPdf" -> 3
      [] p = "awaitPrompt" -> 4
      [] p = "awaitResponse" -> 5
      [] p = "awaitWrite" -> 6
      [] p \in {"done", "exited"} -> 7

\* every step of a run takes it further down the handler and changes the
\* exit code only by setting it at the end
StepForward ==
    /\ Rank(pc') > Rank(pc)
    /\ IF pc' \in {"done", "exited"} THEN exitCode' \in {0, 1}
       ELSE exitCode' = NONE

\* C30: when every external call eventually returns or fails, every run of
\* a subcommand eventually ends with exit code 0 or 1, and it does so within
\* a bounded number of steps: every step moves to a later point of the
\* handler, of which there are seven, so nothing is repeated, retried or
\* waited for.
RunTerminates ==
    /\ [][StepForward]_vars
    /\ <>Ended

\* a run that went through all of the awaits a PDF file needs has ended
WitnessLongestRun ==
    /\ cmd = "convert" /\ source = <<"a", ".", "pdf">>
    /\ optOutput = "out.ttl"
    /\ reads = <<source, source, PromptPath("data-to-shacl")>>
    /\ Len(requests) = 1 /\ written = <<<<optOutput, result>>>>
    /\ pc = "done" /\ exitCode = 0

====
